---- MODULE Spec2Model ----
(***************************************************************************)
(* Model of src/app.py: the extraction / ranking / synthesis / caching     *)
(* pipeline behind the /upload endpoint.                                   *)
(*                                                                         *)
(* Text is modelled as a sequence of tokens.  A token [c, n] stands for n  *)
(* consecutive characters: c = "NL" is one newline, c = "SP" one blank,    *)
(* any other c is a run of n non-whitespace characters in which the word c *)
(* occurs ("x" is a run of characters that contains no keyword).           *)
(***************************************************************************)
EXTENDS Integers, Sequences, FiniteSets, TLC

VARIABLES
    \* ---- extract_page_text on one page (SpecPage)
    pg_text,          \* page.get_text("text") of the page
    pg_num,           \* page_num, the 0-based page index
    pg_results,       \* the value returned by extract_page_text
    pg_pc,            \* "call" before the call, "returned" after it
    \* ---- extract_text_from_pdf on one document (SpecExtract)
    ex_doc,           \* the opened document: the sequence of its pages' texts
    ex_pc,            \* "open", "collect" (inside the as_completed loop), "returned"
    sample_pages,     \* the sorted, duplicate-free list of selected page indices
    futures,          \* the futures as_completed has not yielded yet: page index -> result()
    extracted_text,   \* the list the loop extends, in the order the futures are yielded
    ex_result,        \* the value returned by extract_text_from_pdf
    \* ---- process_text_with_ollama on one excerpt list (SpecSynth)
    syn_data,         \* extracted_data, the argument
    syn_pc,           \* "call", "returned", "raised"
    syn_reply,        \* what ollama.chat did: [ok, content]
    syn_result,       \* the returned arguments, or the exception raised
    \* ---- concurrent requests to /upload (Spec)
    uploads,          \* the files of UPLOADS_DIR: filename -> content
    cache,            \* the files of CACHE_DIR: content hash -> file
    processing_lock,  \* the request holding the lock, 0 when it is free
    req,              \* per request, the state of its call of upload():
                      \*   pc          where the handler is
                      \*   filename    file.filename
                      \*   sent        the document the client sent
                      \*   cache_path  the hash get_cache_path last computed
                      \*   extracted   extracted_text
                      \*   arguments   arguments
                      \*   source      (history) the document the extraction read
                      \*   earlier     (history) the ArgumentSets returned for the
                      \*               same document by uploads that had completed
                      \*               when this one arrived
    replied,          \* the response sent last, [status, body, via], with the
                      \* arguments and the history of the request it answers
    returned,         \* history: document -> the ArgumentSets returned for it
    ollama_calls,     \* history: content hash -> pipeline runs on a document of it
    cache_writes,     \* history: content hash -> completed writes of its entry
    cache_source      \* history: content hash -> hash of the document its entry
                      \* was computed from

pageVars == <<pg_text, pg_num, pg_results, pg_pc>>
extractVars == <<ex_doc, ex_pc, sample_pages, futures, extracted_text, ex_result>>
synthVars == <<syn_data, syn_pc, syn_reply, syn_result>>
uploadVars == <<uploads, cache, processing_lock, req, replied, returned,
                ollama_calls, cache_writes, cache_source>>
vars == <<pageVars, extractVars, synthVars, uploadVars>>

-----------------------------------------------------------------------------
(* Bounds of the model *)

MaxParagraphs == 4
MaxPageNum == 1
MaxPageCount == 12
MaxContentLen == 4
NumRequests == 3

-----------------------------------------------------------------------------
(* Text helpers *)

NL == [c |-> "NL", n |-> 1]
SP == [c |-> "SP", n |-> 1]
W(word, len) == [c |-> word, n |-> len]

IsSpace(t) == t.c \in {"NL", "SP"}

RECURSIVE StrLen(_)
StrLen(text) ==
    IF text = <<>> THEN 0 ELSE Head(text).n + StrLen(Tail(text))

RECURSIVE LStrip(_)
LStrip(text) ==
    IF text = <<>> THEN <<>>
    ELSE IF IsSpace(Head(text)) THEN LStrip(Tail(text)) ELSE text

RECURSIVE RStrip(_)
RStrip(text) ==
    IF text = <<>> THEN <<>>
    ELSE IF IsSpace(text[Len(text)]) THEN RStrip(SubSeq(text, 1, Len(text) - 1))
    ELSE text

Strip(text) == RStrip(LStrip(text))

ReplaceNewlines(text) ==
    [i \in 1..Len(text) |-> IF text[i] = NL THEN SP ELSE text[i]]

(* str.lower() on the words the model uses *)
Lower(word) ==
    CASE word = "COURT" -> "court"
      [] word = "Law" -> "law"
      [] OTHER -> word

(* the keywords that occur as substrings of a lower-case word *)
KeywordsIn(word) ==
    CASE word = "supreme court" -> {"supreme court", "court"}
      [] word = "lawful" -> {"law"}
      [] word = "x" -> {}
      [] OTHER -> {word}

(* `keyword in text_lower` *)
Contains(text, keyword) ==
    \E i \in 1..Len(text) : keyword \in KeywordsIn(Lower(text[i].c))

positive_keywords ==
    {"argue", "contend", "claim", "assert", "plaintiff", "defendant",
     "evidence", "court", "judgment", "statute", "therefore", "conclude"}

strong_keywords ==
    {"precedent", "constitutional", "violation", "protected", "supreme court",
     "fundamental", "rights", "law", "legal", "justice"}

calculate_relevance_score(text) ==
    LET score1 == Cardinality({k \in positive_keywords : Contains(text, k)})
        score2 == score1 + 2 * Cardinality({k \in strong_keywords : Contains(text, k)})
    IN  IF 100 <= StrLen(text) /\ StrLen(text) <= 300 THEN score2 + 1 ELSE score2

-----------------------------------------------------------------------------
(* re.split on a newline, optional whitespace and a newline *)

(* the index of the last newline of the whitespace run that starts at i,   *)
(* or 0 when the run holds no newline after position i                     *)
RECURSIVE LastNewlineInRun(_, _, _)
LastNewlineInRun(text, i, best) ==
    IF i > Len(text) \/ ~IsSpace(text[i]) THEN best
    ELSE LastNewlineInRun(text, i + 1, IF text[i] = NL THEN i ELSE best)

(* pieces of text[from..], cur being the start of the piece being read     *)
RECURSIVE SplitFrom(_, _, _)
SplitFrom(text, cur, i) ==
    IF i > Len(text) THEN << SubSeq(text, cur, Len(text)) >>
    ELSE IF text[i] = NL /\ LastNewlineInRun(text, i + 1, 0) > 0
         THEN LET e == LastNewlineInRun(text, i + 1, 0)
              IN  << SubSeq(text, cur, i - 1) >> \o SplitFrom(text, e + 1, e + 1)
         ELSE SplitFrom(text, cur, i + 1)

SplitParagraphs(text) == SplitFrom(text, 1, 1)

-----------------------------------------------------------------------------
(* list.sort(key=..., reverse=True): a stable sort, descending *)

(* tuple comparison a >= b, as Python compares key tuples *)
RECURSIVE TupleGE(_, _)
TupleGE(a, b) ==
    IF a = <<>> THEN TRUE
    ELSE IF Head(a) # Head(b) THEN Head(a) > Head(b)
    ELSE TupleGE(Tail(a), Tail(b))

(* the key lambda x: (x[f1], x[f2], ...) for the field names in fields *)
KeyOf(x, fields) == [i \in 1..Len(fields) |-> x[fields[i]]]

RECURSIVE InsertDesc(_, _, _)
InsertDesc(sorted, x, fields) ==
    IF sorted = <<>> THEN << x >>
    ELSE IF TupleGE(KeyOf(Head(sorted), fields), KeyOf(x, fields))
         THEN << Head(sorted) >> \o InsertDesc(Tail(sorted), x, fields)
         ELSE << x >> \o sorted

RECURSIVE SortDesc(_, _)
SortDesc(list, fields) ==
    IF list = <<>> THEN <<>>
    ELSE InsertDesc(SortDesc(SubSeq(list, 1, Len(list) - 1), fields),
                    list[Len(list)], fields)

Take(list, k) == SubSeq(list, 1, IF Len(list) < k THEN Len(list) ELSE k)

-----------------------------------------------------------------------------
(* extract_page_text *)

MinParagraphLen == 30
TopPerPage == 3

(* the loop body: the excerpt a paragraph contributes, if any *)
ParagraphExcerpts(para_raw, page_num) ==
    LET para == ReplaceNewlines(Strip(para_raw))
        score == calculate_relevance_score(para)
    IN  IF StrLen(para) < MinParagraphLen THEN <<>>
        ELSE IF score > 0
             THEN << [page |-> page_num + 1, text |-> para, relevance_score |-> score] >>
             ELSE <<>>

RECURSIVE CollectExcerpts(_, _)
CollectExcerpts(paragraphs, page_num) ==
    IF paragraphs = <<>> THEN <<>>
    ELSE ParagraphExcerpts(Head(paragraphs), page_num)
            \o CollectExcerpts(Tail(paragraphs), page_num)

(* RankPage without the sort: the first three paragraphs in page order *)
RankPage_unsorted(results) == Take(results, TopPerPage)

RankPage(results) == Take(SortDesc(results, << "relevance_score" >>), TopPerPage)

extract_page_text(text, page_num) ==
    IF Strip(text) = <<>> THEN <<>>
    ELSE RankPage(CollectExcerpts(SplitParagraphs(text), page_num))

-----------------------------------------------------------------------------
(* extract_text_from_pdf: page selection *)

(* SelectedPageList with the last two pages taken from 4 pages on *)
SelectedPageList_lastFrom4(page_count) ==
    LET middle == page_count \div 2
    IN  << 0 >>
        \o (IF page_count > 3 THEN << 1, 2 >> ELSE <<>>)
        \o (IF page_count > 10 THEN << middle - 1, middle, middle + 1 >> ELSE <<>>)
        \o (IF page_count >= 4 THEN << page_count - 2, page_count - 1 >> ELSE <<>>)

(* sample_pages as the appends and extends build it, duplicates included *)
SelectedPageList(page_count) ==
    LET middle == page_count \div 2
    IN  << 0 >>
        \o (IF page_count > 3 THEN << 1, 2 >> ELSE <<>>)
        \o (IF page_count > 10 THEN << middle - 1, middle, middle + 1 >> ELSE <<>>)
        \o (IF page_count >= 5 THEN << page_count - 2, page_count - 1 >> ELSE <<>>)

(* set(list) *)
ToSet(list) == { list[i] : i \in 1..Len(list) }

(* sorted(set): the ascending list of the elements of a set of integers *)
RECURSIVE Sorted(_)
Sorted(set) ==
    IF set = {} THEN <<>>
    ELSE LET m == CHOOSE x \in set : \A y \in set : x <= y
         IN  << m >> \o Sorted(set \ {m})

SamplePages(page_count) == Sorted(ToSet(SelectedPageList(page_count)))

(* extract_text_from_pdf: merge of the pages' excerpts *)

TopOverall == 20

(* SortAndTruncate without the sort: the first 20 in the order yielded *)
SortAndTruncate_unsorted(list) == Take(list, TopOverall)

SortAndTruncate(list) ==
    Take(SortDesc(list, << "page", "relevance_score" >>), TopOverall)

(* doc[page_num].get_text("text"): pages are 0-based, sequences 1-based *)
PageText(doc, page_num) == doc[page_num + 1]

RECURSIVE ExtractPages(_, _)
ExtractPages(doc, pages) ==
    IF pages = <<>> THEN <<>>
    ELSE extract_page_text(PageText(doc, Head(pages)), Head(pages))
            \o ExtractPages(doc, Tail(pages))

(* the value extract_text_from_pdf returns when the futures are yielded in  *)
(* submission order                                                        *)
extract_text_from_pdf(doc) ==
    IF Len(doc) = 0 THEN <<>>
    ELSE SortAndTruncate(ExtractPages(doc, SamplePages(Len(doc))))

-----------------------------------------------------------------------------
(* parse_ollama_response and extract_numbered_items.  The regular          *)
(* expressions are modelled by the matches Python's re finds: leftmost,    *)
(* alternatives in order, greedy and lazy quantifiers with backtracking.   *)

COLON == [c |-> ":", n |-> 1]
DOT   == [c |-> ".", n |-> 1]
DASH  == [c |-> "-", n |-> 1]
STAR  == [c |-> "*", n |-> 1]
D1    == [c |-> "1", n |-> 1]
D2    == [c |-> "2", n |-> 1]
A     == [c |-> "a", n |-> 1]
FOR     == [c |-> "FOR", n |-> 3]
For     == [c |-> "For", n |-> 3]
AGAINST == [c |-> "AGAINST", n |-> 7]

IsDigit(t) == t.c \in {"1", "2"}

(* re.IGNORECASE on the marker words *)
Upper(word) ==
    CASE word = "For" -> "FOR"
      [] word = "for" -> "FOR"
      [] word = "against" -> "AGAINST"
      [] OTHER -> word

IsMarker(t, marker) == Upper(t.c) = marker

(* the first index >= i of a token that is not a digit *)
RECURSIVE SkipDigits(_, _)
SkipDigits(text, i) ==
    IF i <= Len(text) /\ IsDigit(text[i]) THEN SkipDigits(text, i + 1) ELSE i

(* the first index >= i of a token that is not whitespace *)
RECURSIVE SkipSpace(_, _)
SkipSpace(text, i) ==
    IF i <= Len(text) /\ IsSpace(text[i]) THEN SkipSpace(text, i + 1) ELSE i

(* a list marker (digits and a dot, a star or a dash) at index i: the     *)
(* index after the marker, 0 when there is none                            *)
BulletEnd(text, i) ==
    IF i > Len(text) THEN 0
    ELSE IF text[i] \in {STAR, DASH} THEN i + 1
    ELSE IF IsDigit(text[i])
         THEN LET d == SkipDigits(text, i)
              IN  IF d <= Len(text) /\ text[d] = DOT THEN d + 1 ELSE 0
         ELSE 0

(* the lookahead that ends an item, at index e: the end of the text, or a *)
(* newline followed by a list marker                                       *)
ItemEndsAt(text, e) ==
    \/ e = Len(text) + 1
    \/ e <= Len(text) /\ text[e] = NL /\ BulletEnd(text, e + 1) > 0

(* the lazy group: the first index from e on at which the lookahead holds *)
RECURSIVE LazyEnd(_, _)
LazyEnd(text, e) == IF ItemEndsAt(text, e) THEN e ELSE LazyEnd(text, e + 1)

(* the marker, the whitespace after it and the group, the marker being at  *)
(* index b: <<g, e>>, the group being text[g..e-1], or <<0, 0>> when there *)
(* is no match.  The whitespace is matched greedily and gives one          *)
(* character back to the group when it ran to the end of the text.         *)
ItemAfterBullet(text, b) ==
    LET m == BulletEnd(text, b)
        w == SkipSpace(text, m)
    IN  IF m = 0 THEN << 0, 0 >>
        ELSE IF w <= Len(text) THEN << w, LazyEnd(text, w + 1) >>
        ELSE IF w > m THEN << Len(text), Len(text) + 1 >>
        ELSE << 0, 0 >>

(* the pattern tried at index pos: the start of the text or a newline,    *)
(* then the marker and the group                                           *)
ItemMatchAt(text, pos) ==
    LET atStart == IF pos = 1 THEN ItemAfterBullet(text, 1) ELSE << 0, 0 >>
        afterNewline == IF pos <= Len(text) /\ text[pos] = NL
                        THEN ItemAfterBullet(text, pos + 1) ELSE << 0, 0 >>
    IN  IF atStart # << 0, 0 >> THEN atStart ELSE afterNewline

(* re.findall(pattern, text, re.DOTALL): the groups of the matches, which *)
(* do not overlap                                                          *)
RECURSIVE FindAllFrom(_, _)
FindAllFrom(text, pos) ==
    IF pos > Len(text) THEN <<>>
    ELSE LET m == ItemMatchAt(text, pos)
         IN  IF m = << 0, 0 >> THEN FindAllFrom(text, pos + 1)
             ELSE << SubSeq(text, m[1], m[2] - 1) >> \o FindAllFrom(text, m[2])

FindAll(text) == FindAllFrom(text, 1)

(* str.split on the newline *)
RECURSIVE SplitLinesFrom(_, _, _)
SplitLinesFrom(text, cur, i) ==
    IF i > Len(text) THEN << SubSeq(text, cur, Len(text)) >>
    ELSE IF text[i] = NL
         THEN << SubSeq(text, cur, i - 1) >> \o SplitLinesFrom(text, i + 1, i + 1)
         ELSE SplitLinesFrom(text, cur, i + 1)

SplitLines(text) == SplitLinesFrom(text, 1, 1)

(* the fallback of extract_numbered_items: strip, then split on newlines *)
LineFallback(text) == SplitLines(Strip(text))

extract_numbered_items(text) ==
    IF text = <<>> THEN <<>>
    ELSE LET matches == FindAll(text)
             items == [i \in 1..Len(matches) |-> Strip(matches[i])]
         IN  IF items # <<>> THEN items ELSE LineFallback(text)

(* the first index >= i of a token that is the marker word, 0 when none *)
RECURSIVE FindMarker(_, _, _)
FindMarker(content, marker, i) ==
    IF i > Len(content) THEN 0
    ELSE IF IsMarker(content[i], marker) THEN i
    ELSE FindMarker(content, marker, i + 1)

(* $ without re.MULTILINE: the end, or just before a final newline *)
AtDollar(content, e) ==
    \/ e = Len(content) + 1
    \/ e = Len(content) /\ content[e] = NL

(* the lookahead that ends the FOR region, at index e: "AGAINST:" or $ *)
ForRegionEndsAt(content, e) ==
    \/ AtDollar(content, e)
    \/ e < Len(content) /\ IsMarker(content[e], "AGAINST") /\ content[e + 1] = COLON

RECURSIVE ForRegionEnd(_, _)
ForRegionEnd(content, e) ==
    IF ForRegionEndsAt(content, e) THEN e ELSE ForRegionEnd(content, e + 1)

RECURSIVE AgainstRegionEnd(_, _)
AgainstRegionEnd(content, e) ==
    IF AtDollar(content, e) THEN e ELSE AgainstRegionEnd(content, e + 1)

(* the index after the marker word and its optional colon *)
AfterMarker(content, i) ==
    IF i + 1 <= Len(content) /\ content[i + 1] = COLON THEN i + 2 ELSE i + 1

NoMatch == [found |-> FALSE, group |-> <<>>]

(* re.search of FOR, an optional colon and the lazy group up to the        *)
(* lookahead, with DOTALL and IGNORECASE                                   *)
for_section(content) ==
    LET i == FindMarker(content, "FOR", 1)
        b == AfterMarker(content, i)
    IN  IF i = 0 THEN NoMatch
        ELSE [found |-> TRUE, group |-> SubSeq(content, b, ForRegionEnd(content, b) - 1)]

(* re.search of AGAINST, an optional colon and the lazy group up to $ *)
against_section(content) ==
    LET i == FindMarker(content, "AGAINST", 1)
        b == AfterMarker(content, i)
    IN  IF i = 0 THEN NoMatch
        ELSE [found |-> TRUE, group |-> SubSeq(content, b, AgainstRegionEnd(content, b) - 1)]

SectionItems(section) ==
    IF section.found THEN extract_numbered_items(section.group) ELSE <<>>

parse_ollama_response(content) ==
    [for |-> SectionItems(for_section(content)),
     against |-> SectionItems(against_section(content))]

-----------------------------------------------------------------------------
(* process_text_with_ollama.  A call returns [exc, value]: exc = "none"    *)
(* and the returned value, or the name of the exception that leaves it.    *)

Return(value) == [exc |-> "none", value |-> value]
Raise(exception) == [exc |-> exception, value |-> <<>>]

(* line 161 names extract_arguments_rule_based, which app.py defines       *)
(* nowhere: evaluating the name raises NameError inside the except block   *)
extract_arguments_rule_based(extracted_data) == Raise("NameError")

(* reply is what ollama.chat did: [ok |-> TRUE, content] when it returned  *)
(* a response whose message content is content, [ok |-> FALSE] when it     *)
(* raised                                                                  *)
process_text_with_ollama(extracted_data, reply) ==
    IF reply.ok THEN Return(parse_ollama_response(reply.content))
    ELSE extract_arguments_rule_based(extracted_data)

-----------------------------------------------------------------------------
(* Page texts: paragraphs joined by separators *)

ParaShort   == << W("court", 5), SP, W("x", 23) >>           \* 29 characters, 1 keyword
ParaCourt   == << SP, W("COURT", 5), NL, W("x", 24), SP >>   \* 30 after strip, score 1
ParaLaw     == << W("law", 3), SP, W("x", 26) >>             \* 30 characters, score 2
ParaPlain   == << W("x", 30) >>                              \* no keyword, no bonus
ParaSupreme == << W("supreme court", 13), SP, W("rights", 6), SP, W("x", 90) >>
                                                             \* 111 characters, score 6

ParagraphChoices == { ParaShort, ParaCourt, ParaLaw, ParaPlain, ParaSupreme }

BlankLine == << NL, NL >>
SeparatorChoices == { BlankLine, << NL, SP, NL, SP >> }

(* the page texts of k paragraphs: the first gap is any separator, the     *)
(* later ones are blank lines                                              *)
RECURSIVE PageTexts(_)
PageTexts(k) ==
    IF k = 0 THEN { <<>>, << SP, NL >> }
    ELSE IF k = 1 THEN ParagraphChoices
    ELSE { t \o s \o p : t \in PageTexts(k - 1),
                          s \in (IF k = 2 THEN SeparatorChoices ELSE { BlankLine }),
                          p \in ParagraphChoices }

AllPageTexts == UNION { PageTexts(k) : k \in 0..MaxParagraphs }

(* Documents: a "sparse" document of every page count up to the bound,    *)
(* with blank pages, one-paragraph pages and pages with two equal scores,  *)
(* and "dense" documents of 1, 4 and 11 pages, with four scoring           *)
(* paragraphs on every page: 11 pages give 8 selected pages and 24         *)
(* excerpts, more than the 20 returned.                                    *)
DensePage(i) ==
    IF i % 2 = 0
    THEN << W("court", 30), NL, NL, W("rights", 40), NL, NL, W("law", 100), NL, NL,
            W("court", 30) >>
    ELSE << W("law", 30), NL, NL, W("law", 30), NL, NL, W("court", 29), NL, NL,
            W("claim", 30), NL, NL, W("supreme court", 50) >>

SparsePage(i) ==
    CASE i % 3 = 0 -> << W("law", 30), NL, NL, W("x", 30) >>
      [] i % 3 = 1 -> << SP, NL, NL >>
      [] OTHER     -> << W("court", 30), NL, NL, W("rights", 100), NL, NL, W("claim", 30) >>

Documents ==
    { [i \in 1..n |-> SparsePage(i)] : n \in 0..MaxPageCount }
        \cup { [i \in 1..n |-> DensePage(i)] : n \in {1, 4, 11} }

(* Response texts: every text of up to MaxContentLen tokens, and some     *)
(* longer ones in the format the prompt asks for                           *)
ContentAlphabet == { FOR, AGAINST, COLON, NL, SP, A, D1, DOT, DASH }

ShortContents == UNION { [1..k -> ContentAlphabet] : k \in 0..MaxContentLen }

LongContents ==
    { << FOR, COLON, NL, D1, DOT, SP, A, NL, D2, DOT, SP, A, SP, A, NL, NL,
         AGAINST, COLON, NL, D1, DOT, SP, A, NL >>,
      << For, SP, A, NL, STAR, SP, A, NL, DASH, A, NL, AGAINST, NL, A, NL, NL, A, NL >>,
      << A, SP, FOR, COLON, NL, A, SP, A, NL, NL, A, NL, AGAINST, COLON, NL, NL >>,
      << AGAINST, COLON, D1, D2, DOT, A, NL, D1, DOT, FOR, COLON, SP, NL, SP >> }

ResponseContents == ShortContents \cup LongContents

Replies == { [ok |-> TRUE, content |-> c] : c \in ResponseContents }
                \cup { [ok |-> FALSE, content |-> <<>>] }

ExcerptLists ==
    { <<>>,
      extract_page_text(DensePage(2), 0),
      extract_page_text(SparsePage(3), 4) }

-----------------------------------------------------------------------------
(* The cache and the upload handler's building blocks *)

(* A document file: head stands for its first 1 MiB of bytes, pages for    *)
(* the texts fitz reads from it                                            *)
PrefixBytes == 1048576

(* f.read(1024 * 1024) and hashlib.md5(content).hexdigest(): the digest of *)
(* the first 1 MiB, digests of different prefixes taken to differ          *)
get_cache_path(file) == file.head

Absent == [state |-> "absent", data |-> <<>>]
(* a cache file after open(cache_path, 'w') and before json.dump wrote it *)
Truncated == [state |-> "empty", data |-> <<>>]
(* json.dump(data, f) *)
JsonFile(data) == [state |-> "json", data |-> data]

(* the truth value of a dict: it has a key *)
Truthy(data) == DOMAIN data # {}

Requests == 1..NumRequests
Filenames == { "a.pdf", "b.pdf" }

File1 == [head |-> 1, pages |-> << << W("law", 30) >> >>]
File2 == [head |-> 2, pages |-> << << W("court", 30), NL, NL, W("rights", 100) >>,
                                   << SP, NL >> >>]
NoFile == [head |-> 0, pages |-> <<>>]
UploadFiles == { File1, File2 }
Hashes == { get_cache_path(f) : f \in UploadFiles }

(* what a client sends, filename and content: two documents under one      *)
(* filename, one document under two filenames, two documents under two     *)
(* filenames                                                               *)
UploadChoices ==
    { << "a.pdf", File1 >>, << "a.pdf", File2 >>, << "b.pdf", File2 >> }

(* text[:k]: the first k characters *)
RECURSIVE TakeChars(_, _)
TakeChars(text, k) ==
    IF text = <<>> \/ k <= 0 THEN <<>>
    ELSE IF Head(text).n <= k
         THEN << Head(text) >> \o TakeChars(Tail(text), k - Head(text).n)
         ELSE << [Head(text) EXCEPT !.n = k] >>

PromptLimit == 150

(* lines 122-124: prompt_text, one entry per excerpt, its page and the     *)
(* first 150 characters of its text                                        *)
PromptText(extracted_data) ==
    [i \in 1..Len(extracted_data) |->
        [page |-> extracted_data[i].page,
         text |-> TakeChars(extracted_data[i].text, PromptLimit)]]

(* What ollama.chat does with a prompt.  With temperature 0.0 and top_k 1  *)
(* the decoding is greedy: the content is a function of the prompt.  The   *)
(* answer modelled is in the format the prompt asks for, one numbered FOR  *)
(* line and one numbered AGAINST line per excerpt of the prompt.           *)
RECURSIVE AnswerLines(_)
AnswerLines(prompt_text) ==
    IF prompt_text = <<>> THEN <<>>
    ELSE << NL, D1, DOT, SP, A >> \o AnswerLines(Tail(prompt_text))

Answer(prompt_text) ==
    << FOR, COLON >> \o AnswerLines(prompt_text)
        \o << NL, AGAINST, COLON >> \o AnswerLines(prompt_text)

(* lines 142-161: ollama.chat returns its answer to the prompt, or raises *)
OllamaReplies(extracted_data) ==
    { [ok |-> TRUE, content |-> Answer(PromptText(extracted_data))],
      [ok |-> FALSE, content |-> <<>>] }

NoResponse == [status |-> 0, body |-> <<>>, via |-> "none"]
(* jsonify(body), status 200 *)
Ok(body, via) == [status |-> 200, body |-> body, via |-> via]
(* jsonify({"error": ...}), 400 *)
ClientError == [status |-> 400, body |-> <<>>, via |-> "input"]
(* an exception that leaves upload(): Flask answers 500 *)
ServerError(exception) == [status |-> 500, body |-> <<>>, via |-> exception]

NewRequest ==
    [pc |-> "idle", filename |-> "", sent |-> NoFile, cache_path |-> 0,
     extracted |-> <<>>, arguments |-> <<>>, source |-> NoFile, earlier |-> {}]

NoReply == [response |-> NoResponse, arguments |-> <<>>, earlier |-> {}]

UploadIdle ==
    /\ uploads = [f \in Filenames |-> NoFile]
    /\ cache = [h \in Hashes |-> Absent]
    /\ processing_lock = 0
    /\ req = [r \in Requests |-> NewRequest]
    /\ replied = NoReply
    /\ returned = [f \in UploadFiles |-> {}]
    /\ ollama_calls = [h \in Hashes |-> 0]
    /\ cache_writes = [h \in Hashes |-> 0]
    /\ cache_source = [h \in Hashes |-> 0]

-----------------------------------------------------------------------------
(* SpecPage: one call of extract_page_text *)

ExtractIdle ==
    /\ ex_doc = <<>>
    /\ ex_pc = "idle"
    /\ sample_pages = <<>>
    /\ futures = << >>
    /\ extracted_text = <<>>
    /\ ex_result = <<>>

SynthIdle ==
    /\ syn_data = <<>>
    /\ syn_pc = "idle"
    /\ syn_reply = [ok |-> TRUE, content |-> <<>>]
    /\ syn_result = [exc |-> "none", value |-> <<>>]

PageIdle ==
    /\ pg_text = <<>>
    /\ pg_num = 0
    /\ pg_results = <<>>
    /\ pg_pc = "idle"

PageInit ==
    /\ pg_text \in AllPageTexts
    /\ pg_num \in 0..MaxPageNum
    /\ pg_results = <<>>
    /\ pg_pc = "call"
    /\ ExtractIdle
    /\ SynthIdle
    /\ UploadIdle

ExtractPageText ==
    /\ pg_pc = "call"
    /\ pg_results' = extract_page_text(pg_text, pg_num)
    /\ pg_pc' = "returned"
    /\ UNCHANGED <<pg_text, pg_num>>
    /\ UNCHANGED <<extractVars, synthVars, uploadVars>>

PageNext == ExtractPageText

SpecPage == PageInit /\ [][PageNext]_vars

(* The paragraphs of the page that survive the filters, as the            *)
(* specification words them: split on blank lines, trimmed, newlines       *)
(* collapsed, at least 30 characters, a score above zero.                  *)
SurvivorScores(text) ==
    LET paragraphs == SplitParagraphs(text)
        clean(i) == ReplaceNewlines(Strip(paragraphs[i]))
    IN  [i \in { j \in 1..Len(paragraphs) :
                    /\ StrLen(clean(j)) >= 30
                    /\ calculate_relevance_score(clean(j)) > 0 }
            |-> calculate_relevance_score(clean(i))]

CountAtLeast(scores, v) == Cardinality({ i \in DOMAIN scores : scores[i] >= v })

Min(a, b) == IF a < b THEN a ELSE b

(* C8: extract_page_text returns at most 3 excerpts; each has a text of at *)
(* least 30 characters, a score above 0 and the page number index + 1; the *)
(* excerpts are in descending score order and are the highest-scoring      *)
(* surviving paragraphs of the page (for every score v, as many excerpts   *)
(* score v or more as survivors do, up to 3); a whitespace-only page       *)
(* yields the empty sequence.                                              *)
C8_PageExcerptBounds ==
    pg_pc = "returned" =>
        LET survivors == SurvivorScores(pg_text)
            scores == [i \in 1..Len(pg_results) |-> pg_results[i].relevance_score]
        IN  /\ Len(pg_results) <= 3
            /\ \A i \in 1..Len(pg_results) :
                    /\ StrLen(pg_results[i].text) >= 30
                    /\ pg_results[i].relevance_score > 0
                    /\ pg_results[i].page = pg_num + 1
                    /\ pg_results[i].relevance_score
                            = calculate_relevance_score(pg_results[i].text)
            /\ \A i \in 1..Len(pg_results), j \in 1..Len(pg_results) :
                    i < j => pg_results[i].relevance_score >= pg_results[j].relevance_score
            /\ \A v \in 1..8 :
                    CountAtLeast(scores, v) = Min(3, CountAtLeast(survivors, v))
            /\ (\A i \in 1..Len(pg_text) : IsSpace(pg_text[i])) => pg_results = <<>>

(* a page with four surviving paragraphs whose scores rise down the page,  *)
(* of which three are returned                                             *)
C8_Witness ==
    /\ pg_pc = "returned"
    /\ Len(pg_results) = 3
    /\ Cardinality(DOMAIN SurvivorScores(pg_text)) = 4
    /\ pg_results[1].relevance_score > pg_results[3].relevance_score
    /\ pg_results[1].text = ParaSupreme
    /\ SubSeq(pg_text, Len(pg_text) - Len(ParaSupreme) + 1, Len(pg_text)) = ParaSupreme

-----------------------------------------------------------------------------
(* SpecExtract: one call of extract_text_from_pdf.  as_completed yields    *)
(* first the futures that are already finished, in the iteration order of  *)
(* a set, then the others as they finish: every order of the selected      *)
(* pages is a possible order of the loop.                                  *)

ExtractInit ==
    /\ ex_doc \in Documents
    /\ ex_pc = "open"
    /\ sample_pages = <<>>
    /\ futures = << >>
    /\ extracted_text = <<>>
    /\ ex_result = <<>>
    /\ PageIdle
    /\ SynthIdle
    /\ UploadIdle

(* lines 48-52: a document without pages returns [] at once *)
OpenEmpty ==
    /\ ex_pc = "open"
    /\ Len(ex_doc) = 0
    /\ ex_result' = <<>>
    /\ ex_pc' = "returned"
    /\ UNCHANGED <<ex_doc, sample_pages, futures, extracted_text>>
    /\ UNCHANGED <<pageVars, synthVars, uploadVars>>

(* lines 54-71: select the pages and submit one future per page *)
SelectAndSubmit ==
    /\ ex_pc = "open"
    /\ Len(ex_doc) > 0
    /\ sample_pages' = SamplePages(Len(ex_doc))
    /\ futures' = [page_num \in ToSet(SamplePages(Len(ex_doc))) |->
                        extract_page_text(PageText(ex_doc, page_num), page_num)]
    /\ ex_pc' = "collect"
    /\ UNCHANGED <<ex_doc, extracted_text, ex_result>>
    /\ UNCHANGED <<pageVars, synthVars, uploadVars>>

(* lines 72-77: one iteration of the as_completed loop; the last iteration *)
(* is followed by the sort and the truncation                              *)
Yield(page_num) ==
    /\ ex_pc = "collect"
    /\ page_num \in DOMAIN futures
    /\ extracted_text' = extracted_text \o futures[page_num]
    /\ futures' = [f \in DOMAIN futures \ {page_num} |-> futures[f]]
    /\ IF DOMAIN futures = {page_num}
       THEN ex_result' = SortAndTruncate(extracted_text') /\ ex_pc' = "returned"
       ELSE UNCHANGED <<ex_result, ex_pc>>
    /\ UNCHANGED <<ex_doc, sample_pages>>
    /\ UNCHANGED <<pageVars, synthVars, uploadVars>>

ExtractNext ==
    \/ OpenEmpty
    \/ SelectAndSubmit
    \/ \E page_num \in DOMAIN futures : Yield(page_num)

SpecExtract == ExtractInit /\ [][ExtractNext]_vars

(* C6: whatever the order in which the pages' futures are yielded, the     *)
(* sequence extract_text_from_pdf returns has at most 20 excerpts, and of  *)
(* any two excerpts A before B in it either A.page > B.page, or the pages  *)
(* are equal and A.relevance_score >= B.relevance_score.                   *)
C6_CoordinatorOrderAndBound ==
    ex_pc = "returned" =>
        /\ Len(ex_result) <= 20
        /\ \A i \in 1..Len(ex_result), j \in 1..Len(ex_result) :
                i < j =>
                    \/ ex_result[i].page > ex_result[j].page
                    \/ /\ ex_result[i].page = ex_result[j].page
                       /\ ex_result[i].relevance_score >= ex_result[j].relevance_score

(* more than 20 excerpts were collected, in an order that is not the       *)
(* returned one, and 20 are returned                                       *)
C6_Witness ==
    /\ ex_pc = "returned"
    /\ Len(extracted_text) > 20
    /\ Len(ex_result) = 20
    /\ extracted_text[1].page < extracted_text[Len(extracted_text)].page
    /\ \E i \in 1..(Len(extracted_text) - 1) :
            extracted_text[i].page > extracted_text[i + 1].page

(* the page indices the policy of the specification selects *)
PolicyPages(page_count) ==
    { i \in 0..(page_count - 1) :
        \/ i = 0
        \/ page_count > 3 /\ i \in {1, 2}
        \/ page_count > 10 /\ i \in { (page_count \div 2) - 1, page_count \div 2,
                                         (page_count \div 2) + 1 }
        \/ page_count >= 5 /\ i \in { page_count - 2, page_count - 1 } }

(* C7: the selected page indices are duplicate-free, ascending, within     *)
(* [0, page_count) and are the ones the policy names: none for 0 pages,    *)
(* {0} for 2, {0,1,2} for 4, {0,1,2,5,6,7,10,11} for 12.                   *)
C7_PageSelector ==
    /\ Len(ex_doc) = 0 => sample_pages = <<>> /\ ex_pc \in {"open", "returned"}
    /\ ex_pc \in {"collect", "returned"} /\ Len(ex_doc) > 0 =>
        /\ \A i \in 1..Len(sample_pages) :
                sample_pages[i] >= 0 /\ sample_pages[i] < Len(ex_doc)
        /\ \A i \in 1..Len(sample_pages), j \in 1..Len(sample_pages) :
                i < j => sample_pages[i] < sample_pages[j]
        /\ ToSet(sample_pages) = PolicyPages(Len(ex_doc))
        /\ Len(ex_doc) = 2 => sample_pages = << 0 >>
        /\ Len(ex_doc) = 4 => sample_pages = << 0, 1, 2 >>
        /\ Len(ex_doc) = 12 => sample_pages = << 0, 1, 2, 5, 6, 7, 10, 11 >>

(* the pages of a 12-page document have been selected *)
C7_Witness ==
    /\ ex_pc = "collect"
    /\ Len(ex_doc) = 12
    /\ Len(sample_pages) = 8
    /\ DOMAIN futures = ToSet(sample_pages)

-----------------------------------------------------------------------------
(* SpecSynth: one call of process_text_with_ollama *)

SynthInit ==
    /\ syn_data \in ExcerptLists
    /\ syn_pc = "call"
    /\ syn_reply = [ok |-> TRUE, content |-> <<>>]
    /\ syn_result = Return(<<>>)
    /\ PageIdle
    /\ ExtractIdle
    /\ UploadIdle

(* lines 143-158: ollama.chat returns, the content is parsed *)
OllamaReturns(reply) ==
    /\ syn_pc = "call"
    /\ reply.ok
    /\ syn_reply' = reply
    /\ syn_result' = process_text_with_ollama(syn_data, reply)
    /\ syn_pc' = IF syn_result'.exc = "none" THEN "returned" ELSE "raised"
    /\ UNCHANGED syn_data
    /\ UNCHANGED <<pageVars, extractVars, uploadVars>>

(* lines 159-161: ollama.chat raises, the except block runs *)
OllamaRaises(reply) ==
    /\ syn_pc = "call"
    /\ ~reply.ok
    /\ syn_reply' = reply
    /\ syn_result' = process_text_with_ollama(syn_data, reply)
    /\ syn_pc' = IF syn_result'.exc = "none" THEN "returned" ELSE "raised"
    /\ UNCHANGED syn_data
    /\ UNCHANGED <<pageVars, extractVars, uploadVars>>

SynthNext ==
    \/ \E reply \in Replies : OllamaReturns(reply)
    \/ \E reply \in Replies : OllamaRaises(reply)

SpecSynth == SynthInit /\ [][SynthNext]_vars

(* an ArgumentSet: a mapping with a "for" list and an "against" list *)
IsList(x) == DOMAIN x = 1..Len(x)

IsArgumentSet(value) ==
    /\ DOMAIN value = {"for", "against"}
    /\ IsList(value["for"])
    /\ IsList(value["against"])

(* C1: when ollama.chat raises on a non-empty excerpt list,                *)
(* process_text_with_ollama returns an ArgumentSet and no exception        *)
(* reaches its caller.                                                     *)
C1_FallbackTotal ==
    (syn_pc # "call" /\ ~syn_reply.ok /\ syn_data # <<>>) =>
        /\ syn_pc = "returned"
        /\ syn_result.exc = "none"
        /\ IsArgumentSet(syn_result.value)

(* the lines of a text that hold a character other than whitespace *)
NonEmptyLines(text) ==
    SelectSeq(SplitLines(text), LAMBDA line : Strip(line) # <<>>)

(* items are the non-empty lines of the region, one item per line (an      *)
(* item may differ from its line in the whitespace around it)              *)
AreNonEmptyLinesOf(items, region) ==
    /\ Len(items) = Len(NonEmptyLines(region))
    /\ \A i \in 1..Len(items) :
            items[i] # <<>> /\ Strip(items[i]) = Strip(NonEmptyLines(region)[i])

(* C9: when the FOR or the AGAINST region of the response holds no         *)
(* numbered or bulleted item, the items returned for it are its non-empty  *)
(* lines, one per line: none of them is the empty string, and a region of  *)
(* blank lines gives the empty list.                                       *)
C9_LineFallback ==
    syn_pc = "returned" =>
        /\ (for_section(syn_reply.content).found
                /\ FindAll(for_section(syn_reply.content).group) = <<>>)
            => AreNonEmptyLinesOf(syn_result.value["for"],
                                  for_section(syn_reply.content).group)
        /\ (against_section(syn_reply.content).found
                /\ FindAll(against_section(syn_reply.content).group) = <<>>)
            => AreNonEmptyLinesOf(syn_result.value["against"],
                                  against_section(syn_reply.content).group)

-----------------------------------------------------------------------------
(* Spec: NumRequests requests to /upload, served by concurrent threads.    *)
(* A request takes one step per access to the uploads directory, the cache *)
(* directory or the lock; what lies between two accesses is local.  The    *)
(* locals of a request are dropped when its handler returns.               *)

(* The values the pure functions take on the upload files, as tables *)
ExtractionOf == [file \in UploadFiles |-> extract_text_from_pdf(file.pages)]

RepliesOf ==
    [data \in { ExtractionOf[file] : file \in UploadFiles } |-> OllamaReplies(data)]

SynthesisOf ==
    [data \in { ExtractionOf[file] : file \in UploadFiles } |->
        [reply \in RepliesOf[data] |-> process_text_with_ollama(data, reply)]]

AllReplies == UNION { RepliesOf[data] : data \in DOMAIN RepliesOf }

OtherIdle == PageIdle /\ ExtractIdle /\ SynthIdle

Init == UploadIdle /\ OtherIdle

OthersUnchanged == UNCHANGED <<pageVars, extractVars, synthVars>>

(* Requests are numbered in the order in which they arrive *)
Arrives(r) == req[r].pc = "idle" /\ \A q \in Requests : q < r => req[q].pc # "idle"

(* a request whose handler has returned or raised keeps no state *)
Done == [NewRequest EXCEPT !.pc = "done"]

(* the handler of r returns or raises: the response goes out *)
Respond(r, resp) ==
    /\ replied' = [response |-> resp, arguments |-> req[r].arguments,
                   earlier |-> req[r].earlier]
    /\ returned' = IF resp.status = 200
                   THEN [returned EXCEPT ![req[r].sent] = @ \cup {resp.body}]
                   ELSE returned

(* a counter of the history, which tells 0, 1 and more apart *)
Count(n) == IF n < 2 THEN n + 1 ELSE n

(* lines 187-192: no file part, or an empty filename *)
RejectUpload(r) ==
    /\ Arrives(r)
    /\ req' = [req EXCEPT ![r] = Done]
    /\ replied' = [NoReply EXCEPT !.response = ClientError]
    /\ UNCHANGED <<uploads, cache, processing_lock, returned, ollama_calls,
                   cache_writes, cache_source>>
    /\ OthersUnchanged

(* lines 194-195: file.save(pdf_path) *)
SaveUpload(r, name, file) ==
    /\ Arrives(r)
    /\ uploads' = [uploads EXCEPT ![name] = file]
    /\ req' = [req EXCEPT ![r] = [@ EXCEPT !.pc = "check_cache", !.filename = name,
                                            !.sent = file,
                                            !.earlier = returned[file]]]
    /\ UNCHANGED <<cache, processing_lock, replied, returned, ollama_calls,
                   cache_writes, cache_source>>
    /\ OthersUnchanged

(* line 34: check_cache reads the file at pdf_path and hashes it *)
HashForLookup(r) ==
    /\ req[r].pc = "check_cache"
    /\ req' = [req EXCEPT ![r] = [@ EXCEPT !.pc = "lookup",
                    !.cache_path = get_cache_path(uploads[req[r].filename])]]
    /\ UNCHANGED <<uploads, cache, processing_lock, replied, returned, ollama_calls,
                   cache_writes, cache_source>>
    /\ OthersUnchanged

(* lines 35-38: [exc, value] of check_cache: None (here <<>>) when the     *)
(* entry is absent, the loaded entry, or the exception json.load raises on *)
(* a file that holds no JSON yet                                           *)
check_cache(entry) ==
    CASE entry.state = "absent" -> Return(<<>>)
      [] entry.state = "empty" -> Raise("JSONDecodeError")
      [] OTHER -> Return(entry.data)

(* lines 197-199: the cached result is returned when it is truthy *)
LookupCache(r) ==
    /\ req[r].pc = "lookup"
    /\ LET cached_result == check_cache(cache[req[r].cache_path])
       IN  IF cached_result.exc # "none"
           THEN /\ Respond(r, ServerError(cached_result.exc))
                /\ req' = [req EXCEPT ![r] = Done]
           ELSE IF Truthy(cached_result.value)
           THEN /\ Respond(r, Ok(cached_result.value, "cache"))
                /\ req' = [req EXCEPT ![r] = Done]
           ELSE /\ req' = [req EXCEPT ![r] = [@ EXCEPT !.pc = "wait_lock",
                                                       !.cache_path = 0]]
                /\ UNCHANGED <<replied, returned>>
    /\ UNCHANGED <<uploads, cache, processing_lock, ollama_calls, cache_writes,
                   cache_source>>
    /\ OthersUnchanged

(* AcquireLock without the wait: the body is entered whoever holds the lock *)
AcquireLock_noWait(r) ==
    /\ req[r].pc = "wait_lock"
    /\ processing_lock' = r
    /\ req' = [req EXCEPT ![r] = [@ EXCEPT !.pc = "extract"]]
    /\ UNCHANGED <<uploads, cache, replied, returned, ollama_calls, cache_writes,
                   cache_source>>
    /\ OthersUnchanged

(* line 201: with processing_lock, the acquire *)
AcquireLock(r) ==
    /\ req[r].pc = "wait_lock"
    /\ processing_lock = 0
    /\ processing_lock' = r
    /\ req' = [req EXCEPT ![r] = [@ EXCEPT !.pc = "extract"]]
    /\ UNCHANGED <<uploads, cache, replied, returned, ollama_calls, cache_writes,
                   cache_source>>
    /\ OthersUnchanged

(* line 202: extract_text_from_pdf opens and reads the file at pdf_path *)
Extract(r) ==
    /\ req[r].pc = "extract"
    /\ LET file == uploads[req[r].filename]
       IN  req' = [req EXCEPT ![r] = [@ EXCEPT !.pc = "synthesize",
                        !.extracted = ExtractionOf[file],
                        !.source = file]]
    /\ UNCHANGED <<uploads, cache, processing_lock, replied, returned, ollama_calls,
                   cache_writes, cache_source>>
    /\ OthersUnchanged

(* line 203: process_text_with_ollama; an exception leaves the with block, *)
(* which releases the lock, and the handler                                *)
Synthesize(r, reply) ==
    /\ req[r].pc = "synthesize"
    /\ reply \in RepliesOf[req[r].extracted]
    /\ ollama_calls' = [ollama_calls EXCEPT ![get_cache_path(req[r].source)] = Count(@)]
    /\ LET result == SynthesisOf[req[r].extracted][reply]
       IN  IF result.exc = "none"
           THEN /\ req' = [req EXCEPT ![r] = [@ EXCEPT !.pc = "save",
                                !.arguments = result.value]]
                /\ UNCHANGED <<processing_lock, replied, returned>>
           ELSE /\ Respond(r, ServerError(result.exc))
                /\ req' = [req EXCEPT ![r] = Done]
                /\ processing_lock' = 0
    /\ UNCHANGED <<uploads, cache, cache_writes, cache_source>>
    /\ OthersUnchanged

(* lines 42-43: save_to_cache hashes the file at pdf_path again and opens  *)
(* the cache file for writing, which truncates it                          *)
OpenCacheFile(r) ==
    /\ req[r].pc = "save"
    /\ LET h == get_cache_path(uploads[req[r].filename])
       IN  /\ req' = [req EXCEPT ![r] = [@ EXCEPT !.pc = "dump", !.cache_path = h]]
           /\ cache' = [cache EXCEPT ![h] = Truncated]
    /\ UNCHANGED <<uploads, processing_lock, replied, returned, ollama_calls,
                   cache_writes, cache_source>>
    /\ OthersUnchanged

(* lines 44 and 206: json.dump writes the entry, the file is closed, the   *)
(* lock released and the arguments returned                                *)
WriteCacheFile(r) ==
    /\ req[r].pc = "dump"
    /\ LET h == req[r].cache_path
       IN  /\ cache' = [cache EXCEPT ![h] = JsonFile(req[r].arguments)]
           /\ cache_writes' = [cache_writes EXCEPT ![h] = Count(@)]
           /\ cache_source' = [cache_source EXCEPT ![h] = get_cache_path(req[r].source)]
    /\ processing_lock' = 0
    /\ Respond(r, Ok(req[r].arguments, "pipeline"))
    /\ req' = [req EXCEPT ![r] = Done]
    /\ UNCHANGED <<uploads, ollama_calls>>
    /\ OthersUnchanged

(* lines 43-44: the storage layer fails, open or the write raises OSError; *)
(* nothing catches it, the with block releases the lock                    *)
CacheWriteFails(r) ==
    /\ req[r].pc \in {"save", "dump"}
    /\ processing_lock' = 0
    /\ Respond(r, ServerError("OSError"))
    /\ req' = [req EXCEPT ![r] = Done]
    /\ UNCHANGED <<uploads, cache, ollama_calls, cache_writes, cache_source>>
    /\ OthersUnchanged

Next ==
    \/ \E r \in Requests : RejectUpload(r)
    \/ \E r \in Requests, upload \in UploadChoices :
            SaveUpload(r, upload[1], upload[2])
    \/ \E r \in Requests : HashForLookup(r)
    \/ \E r \in Requests : LookupCache(r)
    \/ \E r \in Requests : AcquireLock(r)
    \/ \E r \in Requests : Extract(r)
    \/ \E r \in Requests, reply \in AllReplies : Synthesize(r, reply)
    \/ \E r \in Requests : OpenCacheFile(r)
    \/ \E r \in Requests : WriteCacheFile(r)
    \/ \E r \in Requests : CacheWriteFails(r)

Spec == Init /\ [][Next]_vars

(* the extract -> synthesize -> cache-store sequence *)
Pipeline == {"extract", "synthesize", "save", "dump"}

InPipeline == { r \in Requests : req[r].pc \in Pipeline }

(* C4: at most one request is inside the extract -> synthesize ->          *)
(* cache-store sequence, and it is the one that holds the lock: a request  *)
(* that missed the cache starts extraction only when no other is inside.   *)
C4_MutualExclusion ==
    /\ Cardinality(InPipeline) <= 1
    /\ \A r \in InPipeline : processing_lock = r

(* one request is storing its result while another, which missed the      *)
(* cache, waits for the lock, and a third has left the sequence by an      *)
(* error                                                                   *)
C4_Witness ==
    /\ \E r, q \in Requests : req[r].pc = "dump" /\ req[q].pc = "wait_lock"
    /\ replied.response = ServerError("NameError")

(* C2: an upload that arrives after an upload of the same document has     *)
(* returned an ArgumentSet S never enters the extract -> synthesize ->     *)
(* cache-store sequence, and it answers S from the cache.                  *)
C2_ReuploadHitsCache ==
    /\ \A r \in Requests : req[r].earlier # {} => req[r].pc \notin Pipeline
    /\ replied.earlier # {} =>
            /\ replied.response.status = 200
            /\ replied.response.via = "cache"
            /\ replied.response.body \in replied.earlier

(* C3: for every content hash the pipeline runs at most once on a document *)
(* of that hash, and the cache entry of the hash is written at most once.  *)
C3_NoDuplicateWork ==
    \A h \in Hashes : ollama_calls[h] <= 1 /\ cache_writes[h] <= 1

(* C5: a step in which the store fails after the synthesis answers the     *)
(* request with status 200 and the synthesized ArgumentSet.                *)
C5_CacheFailureSwallowed ==
    [][\A r \in Requests :
            CacheWriteFails(r) =>
                /\ replied'.response.status = 200
                /\ replied'.response.body = req[r].arguments]_vars

(* C10: the entry stored under a content hash was computed from a document *)
(* of that hash.                                                           *)
C10_CacheEntryIntegrity ==
    \A h \in Hashes : cache[h].state = "json" => cache_source[h] = h

====
